---------------------------- MODULE Spec2Model ----------------------------
(***************************************************************************)
(* Model of the peplicators pipeline.                                      *)
(*                                                                         *)
(*   src/fetch_pepes.py  the downloader: one fetch task per (id, kind),    *)
(*                       gated by a module-level asyncio.Semaphore, run    *)
(*                       by main() under asyncio.run; the process may be   *)
(*                       run again over the same local store.              *)
(*   src/meta.py         the publisher: add the images folder, rewrite     *)
(*                       every metadata record, add the metadata folder.   *)
(*                                                                         *)
(* The ID range and the permit count are scaled down (the source sets      *)
(* END = 22_065, TOTAL_IDS = 22_065, MAX_CONCURRENCY = 50): the model      *)
(* keeps more fetch tasks than permits, so that tasks do wait.             *)
(***************************************************************************)
EXTENDS Integers, Sequences, FiniteSets, TLC

\* ------------------------------------------------------------------------
\* Constants of src/fetch_pepes.py

START == 1
\* END = 22_065 in the source, scaled.
END == 2
\* MAX_CONCURRENCY = 50 in the source, scaled.
MAX_CONCURRENCY == 2

IDs == START .. END

\* The two resources of one ID: worker() gathers one fetch of each.
Kinds == {"meta", "png"}

\* One fetch task, and one destination path, per (id, kind).
Pairs == IDs \X Kinds

\* The statuses the remote store answers with: 200, another 2xx, and one
\* that is not 2xx.
Statuses == {200, 206, 404}

VARIABLES
  \* --- src/fetch_pepes.py
  remote,       \* remote store: (id, kind) -> HTTP status of its GET
  files,        \* local store: (id, kind) -> file under metadata/ or pepes/
  pc,           \* position of each fetch task of the current run
  sem,          \* value of the module-level semaphore
  main,         \* state of the process: asyncio.run(main())
  gets,         \* GETs issued for each pair in the current run
  opens,        \* times each destination path was opened for writing, ever
  present,      \* the pairs whose destination existed when the run started
  interrupted,  \* a run over this local store was interrupted by the user
  \* --- src/meta.py
  pepesDir,     \* 'pepes' is a directory
  metaDir,      \* 'metadata' is a directory
  srcMeta,      \* source store: id -> content of metadata/<id>
  dstDir,       \* 'pepes/metadata' is a directory
  dstMeta,      \* destination store: id -> content of pepes/metadata/<id>
  dstPrior,     \* the destination store as the publisher found it
  pstate,       \* state of the publish pipeline
  idx,          \* loop index of rewrite_and_copy_metadata (0: not called yet)
  imagesCid,    \* the argument img_root_cid of the rewrite
  metaCid,      \* what add_metadata_subfolder returned
  adds,         \* the folders handed to `ipfs add`, in order
  exits,        \* the exit codes of those calls, in order
  perr,         \* how the publisher ended, when it did not end normally
  \* --- one call of `ipfs add` and the parse of what it printed
  stdout,       \* proc.stdout, as lines
  folder,       \* the folder the call was given
  returned      \* how the call ended, and the CID it returned ("idle": not yet)

fetchVars == <<remote, files, pc, sem, main, gets, opens, present, interrupted>>

pubVars == <<pepesDir, metaDir, srcMeta, dstDir, dstMeta, dstPrior, pstate, idx,
             imagesCid, metaCid, adds, exits, perr>>

ackVars == <<stdout, folder, returned>>

vars == <<fetchVars, pubVars, ackVars>>

\* ------------------------------------------------------------------------
\* Local files

\* A path that does not exist.
Absent == [exists |-> FALSE, data |-> <<>>]

\* A path that exists and holds the bytes d.
File(d) == [exists |-> TRUE, data |-> d]

\* The response body of a pair: never empty, different for every pair.
Body(p) == <<p[1], IF p[2] = "meta" THEN 0 ELSE 1>>

\* aiofiles.open(outfile, "wb"): creates the path, or truncates it.
OpenWb(f) == File(<<>>)

\* f.write(data), then the close at the end of the async with.
WriteAll(f, data) == File(f.data \o data)

\* The remote stores of the model: every GET answers 200, or one resource of
\* the last ID answers another status.
RemoteStores ==
  {r \in [Pairs -> Statuses] : 
     /\ Cardinality({p \in Pairs : r[p] # 200}) <= 1
     /\ \A p \in Pairs : r[p] # 200 => p[1] = END}

\* ------------------------------------------------------------------------
\* fetch(): src/fetch_pepes.py lines 31-40

\* A resume check that never finds the file.
ExistsNever(f) == FALSE

\* outfile.exists()
Exists(f) == f.exists

\* A semaphore that never makes a task wait.
AcquireAlways(s) == TRUE

\* asyncio.Semaphore: acquire returns at once when the value is positive,
\* and suspends the task otherwise.
CanAcquire(s) == s > 0

\* An exit of the block that keeps the permit.
ReleaseLeak(s) == s

\* Leaving the `async with sem` block, on every exit path.
Release(s) == s + 1

\* r.status != 200
IsOk(status) == status = 200

\* Positions of the task that hold a permit, with the GET outstanding.
InGet(p) == pc[p] = "get"

Holders == {p \in Pairs : InGet(p)}

\* A task that has ended within the run, by return or by exception.
Ended(p) == pc[p] \in {"done", "failed"}

\* A suspended acquire is woken once a permit is free; the GET is issued.
Acquire(p) ==
  /\ main = "running"
  /\ pc[p] = "waiting"
  /\ CanAcquire(sem)
  /\ pc' = [pc EXCEPT ![p] = "get"]
  /\ sem' = sem - 1
  /\ gets' = [gets EXCEPT ![p] = @ + 1]
  /\ UNCHANGED <<remote, files, main, opens, present, interrupted, pubVars, ackVars>>

\* The response is a 200 and r.read() returns the body: the task leaves the
\* async with block, holding the body.
GetOk(p) ==
  /\ main = "running"
  /\ InGet(p)
  /\ IsOk(remote[p])
  /\ pc' = [pc EXCEPT ![p] = "got"]
  /\ sem' = Release(sem)
  /\ UNCHANGED <<remote, files, main, gets, opens, present, interrupted, pubVars, ackVars>>

\* Any other status: a diagnostic, and the task returns.
GetSkip(p) ==
  /\ main = "running"
  /\ InGet(p)
  /\ ~IsOk(remote[p])
  /\ pc' = [pc EXCEPT ![p] = "done"]
  /\ sem' = Release(sem)
  /\ UNCHANGED <<remote, files, main, gets, opens, present, interrupted, pubVars, ackVars>>

\* session.get or r.read() raises (timeout, connection reset): the exception
\* leaves the async with block and ends the task.
GetError(p) ==
  /\ main = "running"
  /\ InGet(p)
  /\ pc' = [pc EXCEPT ![p] = "failed"]
  /\ sem' = Release(sem)
  /\ UNCHANGED <<remote, files, main, gets, opens, present, interrupted, pubVars, ackVars>>

\* aiofiles.open(outfile, "wb")
Open(p) ==
  /\ main = "running"
  /\ pc[p] = "got"
  /\ files' = [files EXCEPT ![p] = OpenWb(@)]
  /\ opens' = [opens EXCEPT ![p] = @ + 1]
  /\ pc' = [pc EXCEPT ![p] = "opened"]
  /\ UNCHANGED <<remote, sem, main, gets, present, interrupted, pubVars, ackVars>>

\* await f.write(data), and the close.
Write(p) ==
  /\ main = "running"
  /\ pc[p] = "opened"
  /\ files' = [files EXCEPT ![p] = WriteAll(@, Body(p))]
  /\ pc' = [pc EXCEPT ![p] = "done"]
  /\ UNCHANGED <<remote, sem, main, gets, opens, present, interrupted, pubVars, ackVars>>

\* ------------------------------------------------------------------------
\* worker(), main() and __main__: src/fetch_pepes.py lines 42-59

\* worker(i) is the gather of the two fetches of i: it has returned when
\* both have, and has raised as soon as one has.
WorkerDone(i) == \A k \in Kinds : pc[<<i, k>>] = "done"

WorkerRaised(i) == \E k \in Kinds : pc[<<i, k>>] = "failed"

\* What cancelling the tasks left over does to one task: a task that has
\* ended keeps its result, any other gets CancelledError where it waits.
Cancel(q) == IF Ended(q) THEN pc[q] ELSE "cancelled"

\* The permits after the cancelled tasks have left their async with blocks.
SemAfterCancel == sem + Cardinality(Holders)

\* The tasks whose resume check finds no destination file.
Missing == {p \in Pairs : ~Exists(files[p])}

\* python fetch_pepes.py: a fresh process over the local store. as_completed
\* makes a task of every worker, every worker gathers its two fetches, and
\* the event loop runs each of these tasks to its first suspension before
\* it polls the network: every fetch has made its resume check, and has its
\* permit or waits for one, before any response is handled. The tasks start
\* in the order of a set, so `got`, the tasks that found a permit free, is
\* any set of the right size.
StartRun ==
  /\ main # "running"
  /\ \E got \in SUBSET Missing :
       /\ \A n \in 0 .. Cardinality(got) - 1 : CanAcquire(MAX_CONCURRENCY - n)
       /\ got # Missing => ~CanAcquire(MAX_CONCURRENCY - Cardinality(got))
       /\ pc' = [p \in Pairs |-> IF p \notin Missing THEN "done"
                                 ELSE IF p \in got THEN "get" ELSE "waiting"]
       /\ sem' = MAX_CONCURRENCY - Cardinality(got)
       /\ gets' = [p \in Pairs |-> IF p \in got THEN 1 ELSE 0]
  /\ main' = "running"
  /\ present' = {p \in Pairs : files[p].exists}
  /\ UNCHANGED <<remote, files, opens, interrupted, pubVars, ackVars>>

\* `await t` has returned for every worker: "Finished!".
MainFinish ==
  /\ main = "running"
  /\ \A i \in IDs : WorkerDone(i)
  /\ main' = "finished"
  /\ UNCHANGED <<remote, files, pc, sem, gets, opens, present, interrupted, pubVars, ackVars>>

\* `await t` re-raises the exception of a worker: main() ends, asyncio.run
\* cancels the tasks left over, and the exception reaches the top level
\* (only KeyboardInterrupt is caught there).
MainRaise ==
  /\ main = "running"
  /\ \E i \in IDs : WorkerRaised(i)
  /\ main' = "failed"
  /\ pc' = [q \in Pairs |-> Cancel(q)]
  /\ sem' = SemAfterCancel
  /\ UNCHANGED <<remote, files, gets, opens, present, interrupted, pubVars, ackVars>>

\* KeyboardInterrupt: asyncio.run cancels every task, then sys.exit.
Interrupt ==
  /\ main = "running"
  /\ main' = "interrupted"
  /\ pc' = [q \in Pairs |-> Cancel(q)]
  /\ sem' = SemAfterCancel
  /\ interrupted' = TRUE
  /\ UNCHANGED <<remote, files, gets, opens, present, pubVars, ackVars>>

\* ------------------------------------------------------------------------
\* Constants and values of src/meta.py

SCHEME == "ipfs://"
\* TOTAL_IDS = 22_065 in the source, scaled.
TOTAL_IDS == 2

MetaIDs == 1 .. TOTAL_IDS

\* Python values of the argument img_root_cid: a string, or None.
PyStr(s) == [t |-> "str", v |-> s]

PyNone == [t |-> "none", v |-> ""]

\* The CIDs the collaborator hands out.
CIDs == {"cidA", "cidB"}

\* How an f-string formats a value: str(None) is "None".
Format(c) == IF c.t = "none" THEN "None" ELSE c.v

\* A locator that names the first ID whatever the index.
NewUriOfOne(cid, i) == <<SCHEME, Format(cid), "/", 1, ".png">>

\* f"{SCHEME}{img_root_cid}/{idx}.png", as its pieces.
NewUri(cid, i) == <<SCHEME, Format(cid), "/", i, ".png">>

\* ("image", "image_url", "imageURI")
AliasKeys == <<"image", "image_url", "imageURI">>

AliasSet == {AliasKeys[n] : n \in 1 .. Len(AliasKeys)}

\* The keys of the records of the model: the aliases and one other field.
Keys == AliasSet \cup {"name"}

\* The value a source record holds under a key.
OldValue(k) == IF k = "name" THEN <<"pepe">> ELSE <<"http://old/", k>>

\* The content of one path of a store. kind says what reading it gives:
\*   absent       the path does not exist
\*   undecodable  bytes that are not text in the locale's encoding
\*   invalid      text that is not JSON
\*   list, string, number   JSON whose top level is no object
\*   dict         a JSON object, map: key -> value
Entry(kind, map) == [kind |-> kind, map |-> map]

NoMap == [k \in {} |-> <<>>]

NoEntry == Entry("absent", NoMap)

NonDictKinds == {"list", "string", "number"}

\* The source entries of the model: one of each kind that is no object, the
\* empty object, and an object with a name and any set of the aliases.
SrcEntries ==
  {Entry(kind, NoMap) : kind \in {"absent", "undecodable", "invalid"} \cup NonDictKinds}
    \cup {Entry("dict", NoMap)}
    \cup {Entry("dict", [k \in ks \cup {"name"} |-> OldValue(k)]) : ks \in SUBSET AliasSet}

\* A record an earlier publish run left in the destination store.
Stale(i) == Entry("dict", [k \in {"image", "name"} |->
                            IF k = "image" THEN NewUri(PyStr("cidA"), i)
                            ELSE OldValue(k)])

\* ------------------------------------------------------------------------
\* The collaborator's output: stdout as lines, a line as its words.

\* The longest output of one call looked at on its own.
MaxLines == 2

\* A match that takes an `added` line whatever its path.
MatchesAnyPath(line, path) == Len(line) = 3 /\ line[1] = "added"

\* re.match(r"added\s+(\S+)\s+<path>$", line)
Matches(line, path) == Len(line) = 3 /\ line[1] = "added" /\ line[3] = path

IsBlank(line) == Len(line) = 0

\* str.strip(), on the lines: the blank lines at both ends go.
RECURSIVE StripLeft(_)
StripLeft(out) ==
  IF out # <<>> /\ IsBlank(Head(out)) THEN StripLeft(Tail(out)) ELSE out

RECURSIVE StripRight(_)
StripRight(out) ==
  IF out # <<>> /\ IsBlank(out[Len(out)])
    THEN StripRight(SubSeq(out, 1, Len(out) - 1)) ELSE out

Strip(out) == StripRight(StripLeft(out))

\* proc.stdout.strip().splitlines()[-1] and the match, as the outcome:
\*   "IndexError"  no line is left
\*   "nomatch"     the last line does not match
\*   "cid"         it does, and cid is group(1)
ParseAck(out, path) ==
  LET lines == Strip(out) IN
    IF lines = <<>> THEN [res |-> "IndexError", cid |-> ""]
    ELSE LET last == lines[Len(lines)] IN
      IF Matches(last, path) THEN [res |-> "cid", cid |-> last[2]]
      ELSE [res |-> "nomatch", cid |-> ""]

\* The lines the collaborator prints in the model: a blank line, a line of
\* another shape, and `added <CID> <path>` for the two folders.
AckLines ==
  {<<>>, <<"error">>}
    \cup {<<"added", c, path>> : c \in CIDs, path \in {"pepes", "pepes/metadata"}}

\* What a run of the collaborator prints: nothing, or one line.
RunOutputs == {<<>>} \cup {<<line>> : line \in AckLines}

\* Exit codes of the collaborator.
ExitCodes == {0, 1}

\* ------------------------------------------------------------------------
\* rewrite_and_copy_metadata(): src/meta.py lines 43-69

\* The loop over the alias keys: every alias present gets the new URI.
RECURSIVE ReplaceAliases(_, _, _)
ReplaceAliases(data, uri, n) ==
  IF n > Len(AliasKeys) THEN data
  ELSE LET k == AliasKeys[n] IN
    ReplaceAliases(IF k \in DOMAIN data
                     THEN [data EXCEPT ![k] = uri] ELSE data, uri, n + 1)

\* A loop that finds no alias: the old values stay.
ReplacedNever(data) == FALSE

\* `replaced`, after the loop.
Replaced(data) == \E n \in 1 .. Len(AliasKeys) : AliasKeys[n] \in DOMAIN data

\* data["image"] = new_uri
SetKey(data, k, v) == [x \in DOMAIN data \cup {k} |-> IF x = k THEN v ELSE data[x]]

\* A rewrite that sets `image` whether or not an alias was replaced.
RewriteAlwaysImage(data, uri) == SetKey(ReplaceAliases(data, uri, 1), "image", uri)

\* The body of the loop from new_uri on: the aliases, or a new `image`.
RewriteRecord(data, uri) ==
  IF Replaced(data) THEN ReplaceAliases(data, uri, 1)
  ELSE SetKey(data, "image", uri)

\* json.dumps(data, indent=2): the text of a JSON object.
Dumps(data) == Entry("dict", data)

\* An iteration that goes on to the write after a JSONDecodeError.
IterationWritesInvalid(e) ==
  CASE e.kind = "absent" -> "skip"
    [] e.kind = "undecodable" -> "UnicodeDecodeError"
    [] e.kind = "invalid" -> "write"
    [] e.kind \in NonDictKinds -> "TypeError"
    [] e.kind = "dict" -> "write"

\* What one iteration does with the source entry e of idx:
\*   "skip"   missing, or not valid JSON: a diagnostic
\*   "write"  a JSON object: the rewritten record goes to the destination
\*   an exception of Python that nothing catches otherwise
Iteration(e) ==
  CASE e.kind = "absent" -> "skip"
    [] e.kind = "undecodable" -> "UnicodeDecodeError"
    [] e.kind = "invalid" -> "skip"
    [] e.kind \in NonDictKinds -> "TypeError"
    [] e.kind = "dict" -> "write"

\* META_DST_DIR.mkdir(parents=True, exist_ok=True), and the loop starts: no
\* check is made of img_root_cid.
RewriteBegin ==
  /\ pstate = "IMAGES_PUBLISHED"
  /\ idx = 0
  /\ dstDir' = TRUE
  /\ idx' = 1
  /\ UNCHANGED <<pepesDir, metaDir, srcMeta, dstMeta, dstPrior, pstate,
                 imagesCid, metaCid, adds, exits, perr, fetchVars, ackVars>>

\* One iteration of the loop.
RewriteOne ==
  /\ pstate = "IMAGES_PUBLISHED"
  /\ idx \in MetaIDs
  /\ LET e == srcMeta[idx]
         what == Iteration(e)
     IN CASE what = "skip" ->
               /\ idx' = idx + 1
               /\ UNCHANGED <<dstMeta, pstate, perr>>
          [] what = "write" ->
               /\ dstMeta' = [dstMeta EXCEPT ![idx] =
                                Dumps(RewriteRecord(e.map, NewUri(imagesCid, idx)))]
               /\ idx' = idx + 1
               /\ UNCHANGED <<pstate, perr>>
          [] OTHER ->
               /\ pstate' = "FAILED"
               /\ perr' = what
               /\ UNCHANGED <<dstMeta, idx>>
  /\ UNCHANGED <<pepesDir, metaDir, srcMeta, dstDir, dstPrior, imagesCid,
                 metaCid, adds, exits, fetchVars, ackVars>>

\* The loop is over: the function returns.
RewriteReturn ==
  /\ pstate = "IMAGES_PUBLISHED"
  /\ idx = TOTAL_IDS + 1
  /\ pstate' = "METADATA_REWRITTEN"
  /\ UNCHANGED <<pepesDir, metaDir, srcMeta, dstDir, dstMeta, dstPrior, idx,
                 imagesCid, metaCid, adds, exits, perr, fetchVars, ackVars>>

\* ------------------------------------------------------------------------
\* The two calls of the collaborator, and main(): src/meta.py lines 25-41,
\* 71-76 and 80-109

\* A first call that returns None, as the second does, where the output
\* does not parse.
ImagesOutcomeLenient(rc, out) ==
  LET r == ParseAck(out, "pepes") IN
    IF rc # 0 THEN [st |-> "FAILED", cid |-> PyNone, err |-> "ExternalToolError"]
    ELSE IF r.res = "cid"
           THEN [st |-> "IMAGES_PUBLISHED", cid |-> PyStr(r.cid), err |-> "none"]
           ELSE [st |-> "IMAGES_PUBLISHED", cid |-> PyNone, err |-> "none"]

\* How main() goes on after add_images_folder_get_cid, given the exit code
\* and the output of `ipfs add`: check=True raises CalledProcessError on a
\* non-zero exit, which __main__ turns into sys.exit; a last line that does
\* not match is a sys.exit in the function; no line at all is an IndexError
\* that nothing catches.
ImagesOutcome(rc, out) ==
  LET r == ParseAck(out, "pepes") IN
    IF rc # 0 THEN [st |-> "FAILED", cid |-> PyNone, err |-> "ExternalToolError"]
    ELSE CASE r.res = "IndexError" ->
                [st |-> "FAILED", cid |-> PyNone, err |-> "IndexError"]
           [] r.res = "nomatch" ->
                [st |-> "FAILED", cid |-> PyNone, err |-> "ParseError"]
           [] r.res = "cid" ->
                [st |-> "IMAGES_PUBLISHED", cid |-> PyStr(r.cid), err |-> "none"]

\* A second call made without check=True: the exit code is not looked at.
MetadataOutcomeUnchecked(rc, out) ==
  LET r == ParseAck(out, "pepes/metadata") IN
    CASE r.res = "IndexError" ->
           [st |-> "FAILED", cid |-> PyNone, err |-> "IndexError"]
      [] r.res = "nomatch" ->
           [st |-> "METADATA_PUBLISHED", cid |-> PyNone, err |-> "none"]
      [] r.res = "cid" ->
           [st |-> "METADATA_PUBLISHED", cid |-> PyStr(r.cid), err |-> "none"]

\* The same for add_metadata_subfolder, which returns None where the last
\* line does not match.
MetadataOutcome(rc, out) ==
  LET r == ParseAck(out, "pepes/metadata") IN
    IF rc # 0 THEN [st |-> "FAILED", cid |-> PyNone, err |-> "ExternalToolError"]
    ELSE CASE r.res = "IndexError" ->
                [st |-> "FAILED", cid |-> PyNone, err |-> "IndexError"]
           [] r.res = "nomatch" ->
                [st |-> "METADATA_PUBLISHED", cid |-> PyNone, err |-> "none"]
           [] r.res = "cid" ->
                [st |-> "METADATA_PUBLISHED", cid |-> PyStr(r.cid), err |-> "none"]

\* main(), to the return of add_images_folder_get_cid: a required folder
\* that is missing ends the run before the collaborator is called.
PublishImages ==
  /\ pstate = "INIT"
  /\ IF ~(pepesDir /\ metaDir)
       THEN /\ pstate' = "FAILED"
            /\ perr' = "SetupError"
            /\ UNCHANGED <<imagesCid, adds, exits>>
       ELSE \E rc \in ExitCodes, out \in RunOutputs :
              LET o == ImagesOutcome(rc, out) IN
                /\ adds' = Append(adds, "pepes")
                /\ exits' = Append(exits, rc)
                /\ pstate' = o.st
                /\ imagesCid' = o.cid
                /\ perr' = o.err
  /\ UNCHANGED <<pepesDir, metaDir, srcMeta, dstDir, dstMeta, dstPrior, idx,
                 metaCid, fetchVars, ackVars>>

\* add_metadata_subfolder()
PublishMetadata ==
  /\ pstate = "METADATA_REWRITTEN"
  /\ \E rc \in ExitCodes, out \in RunOutputs :
       LET o == MetadataOutcome(rc, out) IN
         /\ adds' = Append(adds, "pepes/metadata")
         /\ exits' = Append(exits, rc)
         /\ pstate' = o.st
         /\ metaCid' = o.cid
         /\ perr' = o.err
  /\ UNCHANGED <<pepesDir, metaDir, srcMeta, dstDir, dstMeta, dstPrior, idx,
                 imagesCid, fetchVars, ackVars>>

\* The report of the two CIDs, or of the one.
Report ==
  /\ pstate = "METADATA_PUBLISHED"
  /\ pstate' = "DONE"
  /\ UNCHANGED <<pepesDir, metaDir, srcMeta, dstDir, dstMeta, dstPrior, idx,
                 imagesCid, metaCid, adds, exits, perr, fetchVars, ackVars>>

\* ------------------------------------------------------------------------
\* Specifications

\* No downloader has run: an empty local store.
FetchIdle ==
  /\ files = [p \in Pairs |-> Absent]
  /\ pc = [p \in Pairs |-> "idle"]
  /\ sem = MAX_CONCURRENCY
  /\ main = "none"
  /\ gets = [p \in Pairs |-> 0]
  /\ opens = [p \in Pairs |-> 0]
  /\ present = {}
  /\ interrupted = FALSE

\* No publisher has run: empty metadata stores.
PublishIdle ==
  /\ pepesDir = TRUE
  /\ metaDir = TRUE
  /\ srcMeta = [i \in MetaIDs |-> NoEntry]
  /\ dstDir = FALSE
  /\ dstMeta = [i \in MetaIDs |-> NoEntry]
  /\ dstPrior = dstMeta
  /\ pstate = "INIT"
  /\ idx = 0
  /\ imagesCid = PyNone
  /\ metaCid = PyNone
  /\ adds = <<>>
  /\ exits = <<>>
  /\ perr = "none"

\* No call of the collaborator is looked at on its own.
AckIdle ==
  /\ stdout = <<>>
  /\ folder = "pepes"
  /\ returned = [st |-> "idle", cid |-> PyNone, err |-> "none"]

\* The stores a publisher may find: any source entries, and a destination
\* folder that is missing, empty, or holds records of an earlier run.
Stores ==
  /\ srcMeta \in [MetaIDs -> SrcEntries]
  /\ metaDir = FALSE => \A i \in MetaIDs : srcMeta[i] = NoEntry
  /\ dstDir \in BOOLEAN
  /\ pepesDir = FALSE => dstDir = FALSE
  /\ dstMeta \in [MetaIDs -> {NoEntry} \cup {Stale(i) : i \in MetaIDs}]
  /\ \A i \in MetaIDs : dstMeta[i] \in {NoEntry, Stale(i)}
  /\ dstDir = FALSE => \A i \in MetaIDs : dstMeta[i] = NoEntry
  /\ dstPrior = dstMeta

\* The downloader, run any number of times over one local store.
Init ==
  /\ remote \in RemoteStores
  /\ FetchIdle
  /\ PublishIdle
  /\ AckIdle

Next ==
  \/ StartRun
  \/ \E p \in Pairs : Acquire(p)
  \/ \E p \in Pairs : GetOk(p)
  \/ \E p \in Pairs : GetSkip(p)
  \/ \E p \in Pairs : GetError(p)
  \/ \E p \in Pairs : Open(p)
  \/ \E p \in Pairs : Write(p)
  \/ MainFinish
  \/ MainRaise
  \/ Interrupt

Spec == Init /\ [][Next]_vars

\* One run of the downloader over an empty local store, which the user does
\* not interrupt, with the scheduling of the event loop: a task that can
\* step does step, a GET that is outstanding ends (with a response, or with
\* an error or the timeout of 60 s), and a task that waits for a permit gets
\* one of the permits that keep coming back (asyncio.Semaphore wakes its
\* waiters in the order they came).
FirstRun ==
  /\ main = "none"
  /\ StartRun

FairNext ==
  \/ FirstRun
  \/ \E p \in Pairs : Acquire(p)
  \/ \E p \in Pairs : GetOk(p)
  \/ \E p \in Pairs : GetSkip(p)
  \/ \E p \in Pairs : GetError(p)
  \/ \E p \in Pairs : Open(p)
  \/ \E p \in Pairs : Write(p)
  \/ MainFinish
  \/ MainRaise

Fairness ==
  /\ WF_vars(FirstRun)
  /\ \A p \in Pairs :
       /\ SF_vars(Acquire(p))
       /\ WF_vars(GetOk(p) \/ GetSkip(p) \/ GetError(p))
       /\ WF_vars(Open(p))
       /\ WF_vars(Write(p))
  /\ WF_vars(MainFinish)
  /\ WF_vars(MainRaise)

FairSpec == Init /\ [][FairNext]_vars /\ Fairness

\* One run of the publisher, python meta.py.
PublishInit ==
  /\ remote = [p \in Pairs |-> 200]
  /\ FetchIdle
  /\ pepesDir \in BOOLEAN
  /\ metaDir \in BOOLEAN
  /\ Stores
  /\ pstate = "INIT"
  /\ idx = 0
  /\ imagesCid = PyNone
  /\ metaCid = PyNone
  /\ adds = <<>>
  /\ exits = <<>>
  /\ perr = "none"
  /\ AckIdle

PublishNext ==
  \/ PublishImages
  \/ RewriteBegin
  \/ RewriteOne
  \/ RewriteReturn
  \/ PublishMetadata
  \/ Report

PublishSpec == PublishInit /\ [][PublishNext]_vars

\* rewrite_and_copy_metadata(img_root_cid), called with any argument.
Arguments == {PyNone} \cup {PyStr(c) : c \in CIDs \cup {""}}

RewriteInit ==
  /\ remote = [p \in Pairs |-> 200]
  /\ FetchIdle
  /\ pepesDir = TRUE
  /\ metaDir = TRUE
  /\ Stores
  /\ pstate = "IMAGES_PUBLISHED"
  /\ idx = 0
  /\ imagesCid \in Arguments
  /\ metaCid = PyNone
  /\ adds = <<>>
  /\ exits = <<>>
  /\ perr = "none"
  /\ AckIdle

RewriteNext ==
  \/ RewriteBegin
  \/ RewriteOne
  \/ RewriteReturn

RewriteSpec == RewriteInit /\ [][RewriteNext]_vars

\* One call of `ipfs add` that exits 0, for either folder, over every output
\* of up to MaxLines lines: add_images_folder_get_cid() for pepes,
\* add_metadata_subfolder() for pepes/metadata.
Folders == {"pepes", "pepes/metadata"}

RECURSIVE OutputsOf(_)
OutputsOf(n) ==
  IF n = 0 THEN {<<>>}
  ELSE LET shorter == OutputsOf(n - 1) IN
    shorter \cup {Append(out, line) : out \in shorter, line \in AckLines}

AckInit ==
  /\ remote = [p \in Pairs |-> 200]
  /\ FetchIdle
  /\ PublishIdle
  /\ stdout \in OutputsOf(MaxLines)
  /\ folder \in Folders
  /\ returned = [st |-> "idle", cid |-> PyNone, err |-> "none"]

AddImagesFolder ==
  /\ returned.st = "idle"
  /\ folder = "pepes"
  /\ returned' = ImagesOutcome(0, stdout)
  /\ UNCHANGED <<stdout, folder, fetchVars, pubVars>>

AddMetadataSubfolder ==
  /\ returned.st = "idle"
  /\ folder = "pepes/metadata"
  /\ returned' = MetadataOutcome(0, stdout)
  /\ UNCHANGED <<stdout, folder, fetchVars, pubVars>>

AckNext ==
  \/ AddImagesFolder
  \/ AddMetadataSubfolder

AckSpec == AckInit /\ [][AckNext]_vars

\* ------------------------------------------------------------------------
\* Claims about the downloader (checked under Spec)

\* C1: in every state of a fetch run, the number of fetch tasks that hold a
\* permit with their GET outstanding is at most MAX_CONCURRENCY.
C1_PermitBound == Cardinality(Holders) <= MAX_CONCURRENCY

\* Every permit is taken while another task waits for one.
C1_Witness ==
  /\ main = "running"
  /\ Cardinality(Holders) = MAX_CONCURRENCY
  /\ \E p \in Pairs : pc[p] = "waiting"

\* C2: a destination file that exists under its final name holds the
\* complete response body, in every state: never an empty or truncated file.
C2_NeverTruncated ==
  \A p \in Pairs : files[p].exists => files[p].data = Body(p)

\* C3: a network failure of one fetch is isolated to that task: the run does
\* not end with a top-level failure, and no other task is cancelled for it.
C3_FailureIsolated ==
  (\E p \in Pairs : pc[p] = "failed") =>
    /\ main # "failed"
    /\ main # "interrupted" => \A q \in Pairs : pc[q] # "cancelled"

\* C4: after an interrupted run, a rerun that completes (so without network
\* error) leaves the local store an uninterrupted run produces: the full
\* body for every pair the remote answers with success, nothing for the rest.
C4_ResumeAfterInterrupt ==
  (interrupted /\ main = "finished") =>
    \A p \in Pairs :
      files[p] = IF IsOk(remote[p]) THEN File(Body(p)) ELSE Absent

\* C5: a run that is not interrupted by the user has issued, when it ends,
\* no GET for a pair whose destination existed at its start and exactly one
\* GET for every other pair.
C5_ExactlyTheComplement ==
  main \in {"finished", "failed"} =>
    \A p \in Pairs : gets[p] = IF p \in present THEN 0 ELSE 1

\* C6: over any sequence of runs, every destination path is opened for
\* writing at most once, and a path that exists is never truncated or
\* overwritten: it keeps its content, but for the one write of the task that
\* has just created it.
C6_WriteOnce ==
  /\ [](\A p \in Pairs : opens[p] <= 1)
  /\ [][\A p \in Pairs :
          files[p].exists =>
            \/ files'[p] = files[p]
            \/ /\ pc[p] = "opened"
               /\ files[p] = File(<<>>)
               /\ files'[p] = File(Body(p))]_vars

\* A rerun has started over a store that holds a file of an earlier run.
C6_Witness ==
  /\ main = "finished"
  /\ \E p \in present : opens[p] = 1 /\ files[p] = File(Body(p))

\* C7: the permits that are out are exactly those of the tasks inside their
\* GET section, on every exit path; once the run has ended the pool is full.
C7_NoPermitLeak ==
  /\ sem = MAX_CONCURRENCY - Cardinality(Holders)
  /\ main # "running" => sem = MAX_CONCURRENCY

\* A run has ended on a network error while other tasks held or awaited a
\* permit, after a response of each kind: the pool is full again.
C7_Witness ==
  /\ main = "failed"
  /\ sem = MAX_CONCURRENCY
  /\ \E p, q \in Pairs : pc[p] = "failed" /\ pc[q] = "cancelled" /\ gets[q] = 1

\* ------------------------------------------------------------------------
\* Claims about the publisher (C8 under PublishSpec, C9 and C10 under
\* RewriteSpec)

\* A CID that exists: a string that is not empty (not None).
IsValidCid(c) == c.t = "str" /\ c.v # ""

\* C8: the rewrite runs only with a parsed images-root CID; when the first
\* call of the collaborator fails (a non-zero exit, or an acknowledgment
\* that does not parse) the pipeline is FAILED, the destination store is as
\* it was, and the second call is never made.
C8_RewriteNeedsImagesCid ==
  /\ idx > 0 => IsValidCid(imagesCid)
  /\ (adds # <<>> /\ ~IsValidCid(imagesCid)) =>
       /\ pstate = "FAILED"
       /\ dstMeta = dstPrior
       /\ adds = <<"pepes">>

\* The first call printed a line that does not parse, with a record to
\* rewrite in the source store.
C8_Witness ==
  /\ pstate = "FAILED"
  /\ perr = "ParseError"
  /\ adds = <<"pepes">>
  /\ \E i \in MetaIDs : srcMeta[i].kind = "dict"

\* C9: the rewrite, called with None or the empty string for the CID, fails
\* at once: it writes no destination record and creates nothing.
C9_RejectsInvalidCid ==
  ~IsValidCid(imagesCid) =>
    /\ idx = 0 \/ pstate = "FAILED"
    /\ dstMeta = dstPrior

\* C10: the rewrite never aborts the batch: whatever the source store holds,
\* it goes through every ID and returns.
C10_NeverAborts == pstate # "FAILED"

\* The locator of the image of ID i under the images root c, written out.
Locator(c, i) == <<"ipfs://", c, "/", i, ".png">>

\* C11: once rewrite_and_copy_metadata(cid) has returned, every ID whose
\* source entry is a JSON object has a record in the destination store, and
\* every alias key of that record holds ipfs://<cid>/<i>.png with its own
\* ID i, never the locator of another ID.
C11_RewriteTotality ==
  idx = TOTAL_IDS + 1 =>
    \A i \in MetaIDs : srcMeta[i].kind = "dict" =>
      /\ dstMeta[i].kind = "dict"
      /\ \A k \in AliasSet \cap DOMAIN dstMeta[i].map :
           dstMeta[i].map[k] = Locator(imagesCid.v, i)

\* The rewrite has returned with every source entry an object that has an
\* `image`, over a destination that held a record of an earlier run.
C11_Witness ==
  /\ idx = TOTAL_IDS + 1
  /\ \A i \in MetaIDs : srcMeta[i].kind = "dict" /\ "image" \in DOMAIN srcMeta[i].map
  /\ \E i \in MetaIDs : dstPrior[i] = Stale(i)

\* C12: for every source object the loop has passed, with s the source
\* record and d the rewritten one: where s has an alias key, d has exactly
\* the keys of s and every alias of s holds the locator; where s has none,
\* d has the keys of s and the one new key `image`, holding the locator;
\* every other field keeps the value it has in s.
C12_AliasHandling ==
  \A i \in MetaIDs : (i < idx /\ srcMeta[i].kind = "dict") =>
    LET s == srcMeta[i].map
        d == dstMeta[i].map
        aliases == AliasSet \cap DOMAIN s
    IN /\ dstMeta[i].kind = "dict"
       /\ aliases # {} =>
            /\ DOMAIN d = DOMAIN s
            /\ \A k \in aliases : d[k] = Locator(imagesCid.v, i)
       /\ aliases = {} =>
            /\ DOMAIN d = DOMAIN s \cup {"image"}
            /\ d["image"] = Locator(imagesCid.v, i)
       /\ \A k \in DOMAIN s \ AliasSet : k \in DOMAIN d /\ d[k] = s[k]

\* The loop has passed a record with `image_url` and no `image`, and a
\* record with no alias at all.
C12_Witness ==
  /\ \E i \in MetaIDs :
       /\ i < idx
       /\ srcMeta[i].kind = "dict"
       /\ "image_url" \in DOMAIN srcMeta[i].map
       /\ "image" \notin DOMAIN srcMeta[i].map
  /\ \E i \in MetaIDs :
       /\ i < idx
       /\ srcMeta[i].kind = "dict"
       /\ AliasSet \cap DOMAIN srcMeta[i].map = {}

\* C13: no step of the publisher changes a source entry, and a step changes
\* the destination entry of an ID only where the source entry of that ID is
\* a JSON object; so the destination entry of an ID whose source is missing
\* or malformed stays what the publisher found.
C13_Frame ==
  /\ [](\A i \in MetaIDs : srcMeta[i].kind # "dict" => dstMeta[i] = dstPrior[i])
  /\ [][/\ srcMeta' = srcMeta
         /\ \A i \in MetaIDs : dstMeta'[i] # dstMeta[i] =>
              i = idx /\ srcMeta[i].kind = "dict"]_vars

\* The rewrite has returned after it skipped an entry that is not JSON, over
\* a record of an earlier run, and wrote the record of another ID.
C13_Witness ==
  /\ idx = TOTAL_IDS + 1
  /\ \E i \in MetaIDs : srcMeta[i].kind = "invalid" /\ dstPrior[i] = Stale(i)
  /\ \E i \in MetaIDs : srcMeta[i].kind = "dict" /\ dstMeta[i] # dstPrior[i]


\* C14: once the second call of the collaborator has exited with 0, the
\* pipeline does not end in FAILED, whatever the call printed: an output
\* that does not parse, the empty output included, leaves the metadata CID
\* unknown and the pipeline goes on to DONE.
C14_UnparsedStillDone ==
  (Len(exits) = 2 /\ exits[2] = 0) => pstate # "FAILED"


\* The order of the states of the pipeline, as its steps.
Order ==
  {<<"INIT", "IMAGES_PUBLISHED">>,
   <<"IMAGES_PUBLISHED", "METADATA_REWRITTEN">>,
   <<"METADATA_REWRITTEN", "METADATA_PUBLISHED">>,
   <<"METADATA_PUBLISHED", "DONE">>}

\* C17: the pipeline changes state only along INIT, IMAGES_PUBLISHED,
\* METADATA_REWRITTEN, METADATA_PUBLISHED, DONE, one step at a time, or to
\* FAILED; FAILED and DONE are never left; after a non-zero exit of either
\* call the state is FAILED; and DONE is reached only after two calls that
\* both exited with 0.
C17_StateOrder ==
  /\ [][pstate' # pstate =>
          \/ <<pstate, pstate'>> \in Order
          \/ pstate' = "FAILED" /\ pstate # "DONE"]_vars
  /\ [](\A n \in 1 .. Len(exits) :
          exits[n] # 0 => pstate = "FAILED" /\ perr = "ExternalToolError")
  /\ [](pstate = "DONE" => exits = <<0, 0>> /\ adds = <<"pepes", "pepes/metadata">>)

\* The pipeline has gone all the way to DONE, over a record it rewrote.
C17_Witness ==
  /\ pstate = "DONE"
  /\ exits = <<0, 0>>
  /\ \E i \in MetaIDs : srcMeta[i].kind = "dict"

\* C20, as stated: after a run that reached DONE, the destination holds a
\* record for an ID only if the source entry of that ID is a JSON object,
\* and every record there embeds the images-root CID of this run.
C20_NoStaleRecord ==
  pstate = "DONE" =>
    \A i \in MetaIDs : dstMeta[i].kind # "absent" =>
      /\ srcMeta[i].kind = "dict"
      /\ \A k \in AliasSet \cap DOMAIN dstMeta[i].map :
           dstMeta[i].map[k] = Locator(imagesCid.v, i)

\* C20, amended: after a run that reached DONE, an ID whose source entry is
\* a JSON object has a record with at least one alias key, and every alias
\* key of it embeds the images-root CID of this run; the destination entry
\* of any other ID is what the run found there, a record of an earlier run
\* included.
C20_DoneStore ==
  pstate = "DONE" =>
    \A i \in MetaIDs :
      IF srcMeta[i].kind = "dict"
        THEN /\ dstMeta[i].kind = "dict"
             /\ AliasSet \cap DOMAIN dstMeta[i].map # {}
             /\ \A k \in AliasSet \cap DOMAIN dstMeta[i].map :
                  dstMeta[i].map[k] = Locator(imagesCid.v, i)
        ELSE dstMeta[i] = dstPrior[i]

\* A run with another images-root CID has reached DONE, and the record an
\* earlier run left for an ID without a readable source is still there.
C20_Witness ==
  /\ pstate = "DONE"
  /\ imagesCid = PyStr("cidB")
  /\ \E i \in MetaIDs :
       /\ srcMeta[i].kind \in {"absent", "invalid"}
       /\ dstMeta[i] = Stale(i)
  /\ \E i \in MetaIDs : srcMeta[i].kind = "dict"

\* ------------------------------------------------------------------------
\* Claims about one call of the collaborator (checked under AckSpec)

\* The lines of stdout that are not blank.
NonBlank == {n \in 1 .. Len(stdout) : stdout[n] # <<>>}

\* The last of them.
LastLine == stdout[CHOOSE n \in NonBlank : \A k \in NonBlank : k <= n]

\* C15, as stated: where the output holds one line `added <CID> <folder>`
\* for the folder of the call, the call returns the CID of that line,
\* wherever the line stands.
C15_AnyPosition ==
  returned.st # "idle" =>
    \A n \in 1 .. Len(stdout) :
      (/\ Matches(stdout[n], folder)
       /\ \A k \in 1 .. Len(stdout) : Matches(stdout[k], folder) => k = n)
        => returned.cid = PyStr(stdout[n][2])

\* C15, amended: the call returns a CID exactly when the last non-blank
\* line of the output is `added <CID> <folder>` for the folder of the call,
\* and then the CID of that line, whatever lines stand before it; a line for
\* another folder is never taken, and a matching line that is not the last
\* gives no CID.
C15_LastLine ==
  returned.st # "idle" =>
    /\ returned.cid # PyNone =>
         NonBlank # {} /\ LastLine = <<"added", returned.cid.v, folder>>
    /\ \A c \in CIDs :
         (NonBlank # {} /\ LastLine = <<"added", c, folder>>)
           => returned.cid = PyStr(c)

\* The call has returned the CID of the last line, which stands after an
\* `added` line for the other folder.
C15_Witness ==
  /\ returned.st # "idle"
  /\ Len(stdout) = 2
  /\ \E other \in Folders \ {folder} : stdout[1] = <<"added", "cidA", other>>
  /\ stdout[2] = <<"added", "cidB", folder>>
  /\ returned.cid = PyStr("cidB")


\* ------------------------------------------------------------------------
\* Further claims about the downloader (C16 and C18 under Spec, C19 under
\* FairSpec)

\* C16: a fetch task that issued its GET and returned has persisted the
\* body exactly when the status was 2xx (200 to 299): on any other status
\* the destination is left absent, and the task returns without an error.
C16_PersistIff2xx ==
  \A p \in Pairs : (pc[p] = "done" /\ gets[p] = 1) =>
    (files[p] = File(Body(p)) <=> remote[p] \in 200 .. 299)


\* C18: at the end of a fetch run in which no GET failed, the destination
\* file of a pair exists exactly when it existed at the start of the run or
\* the remote store answered its GET with a success status (2xx), whatever
\* the other resource of the same ID, or any other ID, was answered.
C18_Independent ==
  main = "finished" =>
    \A p \in Pairs :
      files[p].exists <=> (p \in present \/ remote[p] \in 200 .. 299)


\* C19: under the fair scheduling of FairSpec, every fetch task that waits
\* for a permit comes to hold one, every task that has started comes to its
\* end, and the run terminates.
C19_NoStarvation ==
  /\ \A p \in Pairs : (pc[p] = "waiting") ~> (pc[p] = "get")
  /\ \A p \in Pairs : (pc[p] \in {"waiting", "get", "got", "opened"}) ~> Ended(p)
  /\ (main = "running") ~> (main \in {"finished", "failed"})

=============================================================================
